---- MODULE Spec2Model ----
(***************************************************************************)
(* A model of MinecraftMotionTools: the discrete-tick motion model, its    *)
(* closed-form inversions and the acceleration solvers.                    *)
(*                                                                         *)
(* The library is a set of pure functions.  Each function is an operator   *)
(* computed as its source computes it; an action calls one function on     *)
(* inputs drawn from bounded sets and records what the call produced: a    *)
(* number, a tuple, None, or the exception that ended it.                  *)
(*                                                                         *)
(* Numbers are exact rationals <<n, d>> (d > 0, lowest terms), so that the *)
(* algebra of the formulas is checked in exact arithmetic.  Tick counts    *)
(* are integers, which keeps (1 - d) ** t rational.  The results of        *)
(* math.log, lambertw and ** 0.5 are not rational: they are carried as     *)
(* symbolic numbers that record the function and its arguments.  Where the *)
(* code compares such a number (the Lambert argument against -1/e, the     *)
(* sign of a function at a point found by the root-finder), the sign that  *)
(* exact arithmetic determines is computed, and what it does not determine *)
(* is an input of the call drawn from every outcome that sign allows.      *)
(***************************************************************************)
EXTENDS Integers, Sequences, FiniteSets, TLC

VARIABLES pc, op, args, result, frame

vars == <<pc, op, args, result, frame>>

(***************************************************************************)
(* Bounds of the input sets.                                               *)
(***************************************************************************)
MaxV == 2
MaxT == 2
MaxA == 2
DDen == 2
MaxK == 1
MaxObs == 1
MaxDoublings == 2

(***************************************************************************)
(* Exact rational arithmetic.                                              *)
(***************************************************************************)
Abs(n) == IF n < 0 THEN -n ELSE n

RECURSIVE GCD(_, _)
GCD(m, n) == IF n = 0 THEN m ELSE GCD(n, m % n)

Q(n, d) ==
    LET g == GCD(Abs(n), Abs(d))
        s == IF d < 0 THEN -1 ELSE 1
    IN  <<(s * n) \div g, (s * d) \div g>>

I(n) == <<n, 1>>

Half == <<1, 2>>

\* sums and comparisons go through the least common denominator, products
\* are reduced crosswise first, to keep the integers small
RAdd(x, y) ==
    LET g == GCD(x[2], y[2])
    IN  Q(x[1] * (y[2] \div g) + y[1] * (x[2] \div g), (x[2] \div g) * y[2])
RNeg(x) == <<-x[1], x[2]>>
RSub(x, y) == RAdd(x, RNeg(y))
RMul(x, y) ==
    LET g1 == GCD(Abs(x[1]), y[2])
        g2 == GCD(Abs(y[1]), x[2])
    IN  Q((x[1] \div g1) * (y[1] \div g2), (x[2] \div g2) * (y[2] \div g1))
RDiv(x, y) ==
    RMul(x, IF y[1] < 0 THEN <<-y[2], -y[1]>> ELSE <<y[2], y[1]>>)
RLt(x, y) ==
    LET g == GCD(x[2], y[2])
    IN  x[1] * (y[2] \div g) < y[1] * (x[2] \div g)
RLe(x, y) ==
    LET g == GCD(x[2], y[2])
    IN  x[1] * (y[2] \div g) <= y[1] * (x[2] \div g)
RIsZero(x) == x[1] = 0
RSquare(x) == RMul(x, x)
RSign(x) == IF x[1] < 0 THEN -1 ELSE IF x[1] = 0 THEN 0 ELSE 1

RECURSIVE RPowNat(_, _)
RPowNat(x, n) == IF n = 0 THEN I(1) ELSE RMul(x, RPowNat(x, n - 1))

\* x ** t for an integer-valued t and x # 0
RPow(x, t) ==
    IF t[1] >= 0 THEN RPowNat(x, t[1]) ELSE RDiv(I(1), RPowNat(x, -t[1]))

(***************************************************************************)
(* Quadratic surds r + s * sqrt(D), D >= 0, as <<r, s, D>>: the roots that *)
(* solve_quadratic returns, and the polynomials the callers evaluate at    *)
(* them, in exact arithmetic.                                              *)
(***************************************************************************)
Surd(r, s, D) == <<r, s, D>>
SurdOfRat(x, D) == <<x, I(0), D>>
SAdd(x, y) == <<RAdd(x[1], y[1]), RAdd(x[2], y[2]), x[3]>>
SMul(x, y) ==
    <<RAdd(RMul(x[1], y[1]), RMul(RMul(x[2], y[2]), x[3])),
      RAdd(RMul(x[1], y[2]), RMul(x[2], y[1])), x[3]>>
SScale(c, x) == <<RMul(c, x[1]), RMul(c, x[2]), x[3]>>
\* the sign of a / b - c / d for positive integers, by continued fractions:
\* no product is formed
RECURSIVE CmpFrac(_, _, _, _)
CmpFrac(a, b, c, d) ==
    LET qa == a \div b
        qc == c \div d
        ra == a % b
        rc == c % d
    IN  IF qa # qc THEN (IF qa < qc THEN -1 ELSE 1)
        ELSE IF ra = 0 /\ rc = 0 THEN 0
        ELSE IF ra = 0 THEN -1
        ELSE IF rc = 0 THEN 1
        ELSE -CmpFrac(b, ra, d, rc)

SSign(x) ==
    LET \* |r| against |s| * sqrt(D), as |r / s| against D / |r / s|
        q == RDiv(x[1], x[2])
        n == Abs(q[1])
        w == RMul(x[3], <<q[2], n>>)
        cmp == CmpFrac(n, q[2], w[1], w[2])
    IN  IF RIsZero(x[2]) \/ RIsZero(x[3]) THEN RSign(x[1])
        ELSE IF RIsZero(x[1]) THEN RSign(x[2])
        ELSE IF RSign(x[1]) = RSign(x[2]) THEN RSign(x[1])
        ELSE IF cmp > 0 THEN RSign(x[1])
        ELSE IF cmp < 0 THEN RSign(x[2])
        ELSE 0

ISqrt(n) == CHOOSE i \in 0..n : i * i <= n /\ n < (i + 1) * (i + 1)
IsSquare(x) ==
    /\ x[1] >= 0
    /\ ISqrt(x[1]) * ISqrt(x[1]) = x[1]
    /\ ISqrt(x[2]) * ISqrt(x[2]) = x[2]
RSqrt(x) == Q(ISqrt(x[1]), ISqrt(x[2]))

\* math.ceil of a rational
RCeil(x) == -((-x[1]) \div x[2])

\* math.ceil(math.log(x, b)) for 0 < b < 1 and x > 0: the least integer n
\* with b ** n <= x
RECURSIVE CeilLogUp(_, _, _)
CeilLogUp(x, b, n) ==
    IF RLe(RPowNat(b, n), x) THEN n ELSE CeilLogUp(x, b, n + 1)

RECURSIVE CeilLogDown(_, _, _)
CeilLogDown(x, b, n) ==
    IF RLe(RDiv(I(1), RPowNat(b, n + 1)), x) THEN CeilLogDown(x, b, n + 1)
    ELSE -n

CeilLog(x, b) ==
    IF RLe(I(1), x) THEN CeilLogDown(x, b, 0) ELSE CeilLogUp(x, b, 0)

(***************************************************************************)
(* Python values: what a call produces.                                    *)
(***************************************************************************)
NoneV == [kind |-> "None"]
Num(x) == [kind |-> "num", val |-> x]
SymNum(f, xs) == [kind |-> "num", sym |-> f, of |-> xs]
Tuple(items) == [kind |-> "tuple", items |-> items]
Raise(e) == [kind |-> "raise", exc |-> e, msg |-> ""]
ParamError ==
    [kind |-> "raise", exc |-> "ValueError", msg |-> "Inappropriate parameters"]
HeightError ==
    [kind |-> "raise", exc |-> "ValueError",
     msg |-> "Maximum height must be greater than 0"]

IsRaise(r) == r.kind = "raise"
IsNone(r) == r.kind = "None"
IsNum(r) == r.kind = "num"
IsTuple(r) == r.kind = "tuple"
IsRat(r) == r.kind = "num" /\ "val" \in DOMAIN r

\* the number a surd is: a rational when D is a square, else symbolic
SurdValue(x) ==
    IF RIsZero(x[2]) THEN Num(x[1])
    ELSE IF IsSquare(x[3]) THEN Num(RAdd(x[1], RMul(x[2], RSqrt(x[3]))))
    ELSE SymNum("surd", x)

(***************************************************************************)
(* src/src/minecraft_motion_tools.py                                       *)
(***************************************************************************)
\* a faulty variant of check_values that does not test a; RangeErrorFirst
\* must reject it
check_values_no_a(a, d) ==
    IF RLt(d, I(0)) \/ RLe(I(1), d) THEN ParamError ELSE NoneV

check_values(a, d) ==
    IF RLt(d, I(0)) \/ RLe(I(1), d) \/ RLt(a, I(0))
    THEN ParamError
    ELSE NoneV

v_from_t(v0, t, a, d, after) ==
    LET chk == check_values(a, d)
        a1 == IF after THEN RMul(a, RSub(I(1), d)) ELSE a
    IN  IF IsRaise(chk) THEN chk
        ELSE IF RIsZero(d) THEN Num(RSub(v0, RMul(a, t)))
        ELSE Num(RDiv(RSub(RMul(RAdd(RMul(v0, d), a1),
                                RPow(RSub(I(1), d), t)), a1), d))

\* a faulty variant of v0_from_v_t that skips a /= 1 - d; VelocityRoundTrip
\* must reject it
v0_from_v_t_unadjusted(v, t, a, d, after) ==
    LET chk == check_values(a, d)
    IN  IF IsRaise(chk) THEN chk
        ELSE IF RIsZero(d) THEN Num(RAdd(v, RMul(t, a)))
        ELSE Num(RSub(RMul(RAdd(v, RDiv(a, d)),
                           RPow(RSub(I(1), d), RNeg(t))), RDiv(a, d)))

v0_from_v_t(v, t, a, d, after) ==
    LET chk == check_values(a, d)
        a1 == IF after THEN RMul(a, RSub(I(1), d)) ELSE a
    IN  IF IsRaise(chk) THEN chk
        ELSE IF RIsZero(d) THEN Num(RAdd(v, RMul(t, a)))
        ELSE Num(RSub(RMul(RAdd(v, RDiv(a1, d)),
                           RPow(RSub(I(1), d), RNeg(t))), RDiv(a1, d)))

p_from_t(v0, t, a, d, after, k) ==
    LET chk == check_values(a, d)
        a1 == IF after THEN RMul(a, RSub(I(1), d)) ELSE a
        k1 == IF after THEN RDiv(k, RSub(I(1), d)) ELSE k
        q == RPow(RSub(I(1), d), t)
    IN  IF IsRaise(chk) THEN chk
        ELSE IF RIsZero(d)
        THEN Num(RMul(RAdd(v0, RMul(RSub(RSub(Half, RMul(Half, t)), k), a)),
                      t))
        ELSE Num(RSub(RDiv(RSub(RDiv(RMul(RAdd(RMul(v0, d), a1),
                                          RSub(I(1), q)), d),
                                RMul(a1, t)), d),
                      RMul(RMul(k1, a1), t)))

\* a faulty variant of v0_from_p_t without its t == 0 guard;
\* PositionRoundTrip must reject it
v0_from_p_t_no_t_guard(p, t, a, d, after, k) ==
    LET chk == check_values(a, d)
        a1 == IF after THEN RMul(a, RSub(I(1), d)) ELSE a
        k1 == IF after THEN RDiv(k, RSub(I(1), d)) ELSE k
        q == RPow(RSub(I(1), d), t)
    IN  IF IsRaise(chk) THEN chk
        ELSE IF RIsZero(d)
        THEN IF RIsZero(t) THEN Raise("ZeroDivisionError")
             ELSE Num(RAdd(RDiv(p, t),
                           RDiv(RMul(RAdd(RSub(t, I(1)), RMul(k, I(2))), a),
                                I(2))))
        ELSE IF RIsZero(RSub(I(1), q)) THEN Raise("ZeroDivisionError")
        ELSE Num(RSub(RDiv(RAdd(RMul(p, d),
                                RMul(RMul(a1, t), RAdd(I(1), RMul(k1, d)))),
                           RSub(I(1), q)),
                      RDiv(a1, d)))

v0_from_p_t(p, t, a, d, after, k) ==
    LET chk == check_values(a, d)
        a1 == IF after THEN RMul(a, RSub(I(1), d)) ELSE a
        k1 == IF after THEN RDiv(k, RSub(I(1), d)) ELSE k
        q == RPow(RSub(I(1), d), t)
    IN  IF IsRaise(chk) THEN chk
        ELSE IF RIsZero(t) THEN NoneV
        ELSE IF RIsZero(d)
        THEN Num(RAdd(RDiv(p, t),
                      RDiv(RMul(RAdd(RSub(t, I(1)), RMul(k, I(2))), a),
                           I(2))))
        ELSE Num(RSub(RDiv(RAdd(RMul(p, d),
                                RMul(RMul(a1, t), RAdd(I(1), RMul(k1, d)))),
                           RSub(I(1), q)),
                      RDiv(a1, d)))

max_height_tick_from_v0(v0, a, d, after, k) ==
    LET chk == check_values(a, d)
        a1 == IF after THEN RMul(a, RSub(I(1), d)) ELSE a
        k1 == IF after THEN RDiv(k, RSub(I(1), d)) ELSE k
        arg0 == RAdd(RMul(v0, d), a1)
        arg == RDiv(RMul(RAdd(I(1), RMul(k1, d)), a1), arg0)
    IN  IF IsRaise(chk) THEN chk
        ELSE IF RIsZero(d)
        THEN IF RIsZero(a) THEN NoneV ELSE Num(RSub(RDiv(v0, a), k))
        ELSE IF RIsZero(arg0) THEN NoneV
        ELSE IF RLe(arg, I(0)) THEN NoneV
        ELSE SymNum("log", <<arg, RSub(I(1), d)>>)

\* a faulty variant of CeilTick that rounds a rational peak tick down;
\* PeakIsMaximumOverTicks must reject it
FloorTick(t) ==
    IF IsRat(t) THEN I(t.val[1] \div t.val[2])
    ELSE I(CeilLog(t.of[1], t.of[2]))

\* math.ceil of a peak tick
CeilTick(t) ==
    IF IsRat(t) THEN I(RCeil(t.val)) ELSE I(CeilLog(t.of[1], t.of[2]))

max_height_from_v0(v0, a, d, after, k) ==
    LET chk == check_values(a, d)
        t == max_height_tick_from_v0(v0, a, d, after, k)
    IN  IF IsRaise(chk) THEN chk
        ELSE IF RIsZero(a)
        THEN IF RIsZero(d) THEN NoneV ELSE Num(RDiv(v0, d))
        ELSE IF IsNone(t) THEN NoneV
        ELSE p_from_t(v0, CeilTick(t), a, d, after, k)

t_from_v0_v(v0, v, a, d, after) ==
    LET chk == check_values(a, d)
        a1 == IF after THEN RMul(a, RSub(I(1), d)) ELSE a
        arg0 == RAdd(RMul(v0, d), a1)
        arg == RDiv(RAdd(RMul(v, d), a1), arg0)
    IN  IF IsRaise(chk) THEN chk
        ELSE IF RIsZero(d)
        THEN IF RIsZero(a) THEN NoneV ELSE Num(RDiv(RSub(v0, v), a))
        ELSE IF RIsZero(arg0) THEN NoneV
        ELSE IF RLe(arg, I(0)) THEN NoneV
        ELSE SymNum("log", <<arg, RSub(I(1), d)>>)

(***************************************************************************)
(* The Lambert argument of the d > 0, a > 0 branches is                    *)
(*   log(1 - d) * x * (1 - d) ** y                                         *)
(* with x rational: its sign is -sign(x), and its place relative to the    *)
(* branch point -1/e is `lam`, which ranges over LambertRegions(sign).     *)
(***************************************************************************)
LambertRegions(sign) ==
    IF sign < 0 THEN {"below", "branch", "between"}
    ELSE IF sign = 0 THEN {"zero"}
    ELSE IF sign = 1 THEN {"positive"}
    ELSE {"unreached"}

\* arg * math.e < -1
BelowBranchPoint(lam) == lam = "below"
\* arg * math.e == -1
AtBranchPoint(lam) == lam = "branch"
\* arg >= 0
NonNegative(lam) == lam \in {"zero", "positive"}

\* sign of the Lambert argument of t_from_v0_p; 2 when the call does not
\* reach it
t_from_v0_p_arg_sign(v0, p, a, d, after, k) ==
    LET a1 == IF after THEN RMul(a, RSub(I(1), d)) ELSE a
        k1 == IF after THEN RDiv(k, RSub(I(1), d)) ELSE k
        c == RAdd(I(1), RMul(k1, d))
    IN  IF IsRaise(check_values(a, d)) \/ RIsZero(d) \/ RIsZero(a) THEN 2
        ELSE IF RIsZero(c) THEN 2
        ELSE -RSign(RDiv(RAdd(RDiv(v0, a1), RDiv(I(1), d)), c))

\* a faulty variant of t_from_v0_p without the guard below -1/e;
\* LambertBranchCount must reject it
t_from_v0_p_unguarded(v0, p, a, d, after, k, lam) ==
    LET chk == check_values(a, d)
        a1 == IF after THEN RMul(a, RSub(I(1), d)) ELSE a
        k1 == IF after THEN RDiv(k, RSub(I(1), d)) ELSE k
        c == RAdd(I(1), RMul(k1, d))
        q == RSub(RSquare(RAdd(v0, RMul(a, RSub(Half, k)))),
                  RMul(RMul(p, a), I(2)))
        larg == RSub(I(1), RDiv(RMul(p, d), v0))
        time(br) == SymNum("t_lambertw", <<I(br), v0, p, a1, d, k1>>)
    IN  IF IsRaise(chk) THEN chk
        ELSE IF RIsZero(d)
        THEN IF RIsZero(a) THEN NoneV
             ELSE IF RLt(q, I(0)) THEN NoneV
             ELSE IF RIsZero(q)
             THEN Tuple(<<Num(RSub(RAdd(RDiv(v0, a), Half), k))>>)
             ELSE Tuple(<<SymNum("quad_minus", <<v0, q, a, k>>),
                          SymNum("quad_plus", <<v0, q, a, k>>)>>)
        ELSE IF RIsZero(a)
        THEN IF RIsZero(v0) THEN NoneV
             ELSE IF RLe(larg, I(0)) THEN NoneV
             ELSE SymNum("log", <<larg, RSub(I(1), d)>>)
        ELSE IF RIsZero(c) THEN NoneV
        ELSE IF NonNegative(lam) THEN Tuple(<<time(0)>>)
        ELSE Tuple(<<time(-1), time(0)>>)

t_from_v0_p(v0, p, a, d, after, k, lam) ==
    LET chk == check_values(a, d)
        a1 == IF after THEN RMul(a, RSub(I(1), d)) ELSE a
        k1 == IF after THEN RDiv(k, RSub(I(1), d)) ELSE k
        c == RAdd(I(1), RMul(k1, d))
        q == RSub(RSquare(RAdd(v0, RMul(a, RSub(Half, k)))),
                  RMul(RMul(p, a), I(2)))
        larg == RSub(I(1), RDiv(RMul(p, d), v0))
        time(br) == SymNum("t_lambertw", <<I(br), v0, p, a1, d, k1>>)
    IN  IF IsRaise(chk) THEN chk
        ELSE IF RIsZero(d)
        THEN IF RIsZero(a) THEN NoneV
             ELSE IF RLt(q, I(0)) THEN NoneV
             ELSE IF RIsZero(q)
             THEN Tuple(<<Num(RSub(RAdd(RDiv(v0, a), Half), k))>>)
             ELSE Tuple(<<SymNum("quad_minus", <<v0, q, a, k>>),
                          SymNum("quad_plus", <<v0, q, a, k>>)>>)
        ELSE IF RIsZero(a)
        THEN IF RIsZero(v0) THEN NoneV
             ELSE IF RLe(larg, I(0)) THEN NoneV
             ELSE SymNum("log", <<larg, RSub(I(1), d)>>)
        ELSE IF RIsZero(c) THEN NoneV
        ELSE IF BelowBranchPoint(lam) THEN NoneV
        ELSE IF AtBranchPoint(lam) \/ NonNegative(lam)
        THEN Tuple(<<time(0)>>)
        ELSE Tuple(<<time(-1), time(0)>>)

\* sign of the Lambert argument of v0_t_from_v_p; 2 when the call does not
\* reach it
v0_t_from_v_p_arg_sign(v, p, a, d, after, k) ==
    LET a1 == IF after THEN RMul(a, RSub(I(1), d)) ELSE a
        k1 == IF after THEN RDiv(k, RSub(I(1), d)) ELSE k
        c == RAdd(I(1), RMul(k1, d))
    IN  IF IsRaise(check_values(a, d)) \/ RIsZero(d) \/ RIsZero(a) THEN 2
        ELSE IF RIsZero(c) THEN 2
        ELSE -RSign(RDiv(RAdd(RDiv(v, a1), RDiv(I(1), d)), c))

v0_t_from_v_p(v, p, a, d, after, k, lam) ==
    LET chk == check_values(a, d)
        a1 == IF after THEN RMul(a, RSub(I(1), d)) ELSE a
        k1 == IF after THEN RDiv(k, RSub(I(1), d)) ELSE k
        c == RAdd(I(1), RMul(k1, d))
        q == RAdd(RSquare(RSub(RMul(RSub(k, Half), a), v)),
                  RMul(RMul(p, a), I(2)))
        t0 == RSub(RSub(k, Half), RDiv(v, a))
        v0lin == RAdd(v, RMul(p, d))
        larg == RDiv(v, v0lin)
        \* a * (lambertw(arg, br).real * coef / math.log(1 - d) - 1 / d);
        \* lambertw(0) is 0
        v0w(br, coef) ==
            IF lam = "zero" THEN Num(RNeg(RDiv(a1, d)))
            ELSE SymNum("v0_lambertw", <<I(br), coef, a1, d, v, p>>)
        \* (v0 - v - p * d) / a / (1 + k * d)
        tw(br, coef) ==
            IF lam = "zero"
            THEN Num(RDiv(RDiv(RSub(RSub(RNeg(RDiv(a1, d)), v), RMul(p, d)),
                               a1), c))
            ELSE SymNum("t_of_v0", <<I(br), coef, a1, d, v, p, c>>)
        pair(br, coef) == Tuple(<<v0w(br, coef), tw(br, coef)>>)
    IN  IF IsRaise(chk) THEN chk
        ELSE IF RIsZero(d)
        THEN IF RIsZero(a)
             THEN IF RIsZero(v) THEN NoneV
                  ELSE Tuple(<<Tuple(<<Num(v), Num(RDiv(p, v))>>)>>)
             ELSE IF RLt(q, I(0)) THEN NoneV
             ELSE IF RIsZero(q)
             THEN Tuple(<<Tuple(<<Num(RAdd(v, RMul(t0, a))), Num(t0)>>)>>)
             ELSE Tuple(<<Tuple(<<SymNum("v0_quad_minus", <<v, q, a, k>>),
                                  SymNum("t_quad_minus", <<v, q, a, k>>)>>),
                          Tuple(<<SymNum("v0_quad_plus", <<v, q, a, k>>),
                                  SymNum("t_quad_plus", <<v, q, a, k>>)>>)>>)
        ELSE IF RIsZero(a)
        THEN IF RIsZero(v) THEN NoneV
             ELSE IF RIsZero(v0lin) THEN NoneV
             ELSE IF RLe(larg, I(0)) THEN NoneV
             ELSE Tuple(<<Num(v0lin), SymNum("log", <<larg, RSub(I(1), d)>>)>>)
        ELSE IF RIsZero(c) THEN NoneV
        ELSE IF NonNegative(lam)
        THEN Tuple(<<pair(0, RAdd(I(1), d))>>)
        ELSE Tuple(<<pair(0, c), pair(-1, c)>>)

(***************************************************************************)
(* v0_from_max_height, d > 0 and a > 0.  Its bounds are                    *)
(*   v0 = a * ((1 + k*d) * W / log(1 - d) - 1 / d)                         *)
(* with W the real part of a Lambert W value, so that v0*d + a equals      *)
(* a * d * (1 + k*d) * W / log(1 - d) and the argument of the peak-tick    *)
(* logarithm is log(1 - d) / (d * W): max_height_tick_from_v0 is None for  *)
(* such a bound exactly when W >= 0.  W is negative on both branches when  *)
(* the Lambert argument is in [-1/e, 0), that is when a * (1 + k*d) > 0;   *)
(* otherwise the argument may lie below -1/e, where both branches have the *)
(* same real part, of a sign (w1 for the first bound, w2 for the second)   *)
(* that is an input of the call.                                           *)
(***************************************************************************)
WSigns(h, a, d, after, k) ==
    LET a1 == IF after THEN RMul(a, RSub(I(1), d)) ELSE a
        k1 == IF after THEN RDiv(k, RSub(I(1), d)) ELSE k
    IN  IF IsRaise(check_values(a, d)) \/ RLe(h, I(0)) \/ RIsZero(a)
           \/ RIsZero(d) \/ RIsZero(RMul(a1, RAdd(I(1), RMul(k1, d))))
        THEN {2}
        ELSE IF RLt(I(0), RMul(a1, RAdd(I(1), RMul(k1, d)))) THEN {-1}
        ELSE {-1, 0, 1}

\* max_height_tick_from_v0(bound, a, d, False, k) is None
BoundTickIsNone(w) == w >= 0

\* a faulty variant of v0_from_max_height that lists the branch -1 pair
\* first; BoundPairsInBranchOrder must reject it
v0_from_max_height_swapped(h, a, d, after, k, w1, w2) ==
    LET chk == check_values(a, d)
        a1 == IF after THEN RMul(a, RSub(I(1), d)) ELSE a
        k1 == IF after THEN RDiv(k, RSub(I(1), d)) ELSE k
        arg == RMul(a1, RAdd(I(1), RMul(k1, d)))
        root(sgn, one) == SymNum("v0_sqrt", <<I(sgn), I(one), h, a, k>>)
        bound(br, which) ==
            SymNum("v0_height_lambertw", <<I(br), I(which), h, a1, d, k1>>)
        first == Tuple(<<bound(0, 1), bound(0, 2)>>)
        second == Tuple(<<bound(-1, 1), bound(-1, 2)>>)
        v0 == <<second, first>>
        popped1 == IF BoundTickIsNone(w1) \/ BoundTickIsNone(w2)
                   THEN <<v0[1]>> ELSE v0
        popped0 == IF BoundTickIsNone(w1) \/ BoundTickIsNone(w2)
                   THEN Tail(popped1) ELSE popped1
    IN  IF IsRaise(chk) THEN chk
        ELSE IF RLe(h, I(0)) THEN HeightError
        ELSE IF RIsZero(a)
        THEN IF RIsZero(d) THEN NoneV ELSE Num(RMul(h, d))
        ELSE IF RIsZero(d)
        THEN Tuple(<<Tuple(<<root(-1, 1), root(-1, 0)>>),
                     Tuple(<<root(1, 0), root(1, 1)>>)>>)
        ELSE IF RIsZero(arg) THEN NoneV
        ELSE IF Len(popped0) > 0 THEN Tuple(popped0)
        ELSE NoneV

v0_from_max_height(h, a, d, after, k, w1, w2) ==
    LET chk == check_values(a, d)
        a1 == IF after THEN RMul(a, RSub(I(1), d)) ELSE a
        k1 == IF after THEN RDiv(k, RSub(I(1), d)) ELSE k
        arg == RMul(a1, RAdd(I(1), RMul(k1, d)))
        root(sgn, one) == SymNum("v0_sqrt", <<I(sgn), I(one), h, a, k>>)
        bound(br, which) ==
            SymNum("v0_height_lambertw", <<I(br), I(which), h, a1, d, k1>>)
        first == Tuple(<<bound(0, 1), bound(0, 2)>>)
        second == Tuple(<<bound(-1, 1), bound(-1, 2)>>)
        v0 == <<first, second>>
        popped1 == IF BoundTickIsNone(w1) \/ BoundTickIsNone(w2)
                   THEN <<v0[1]>> ELSE v0
        popped0 == IF BoundTickIsNone(w1) \/ BoundTickIsNone(w2)
                   THEN Tail(popped1) ELSE popped1
    IN  IF IsRaise(chk) THEN chk
        ELSE IF RLe(h, I(0)) THEN HeightError
        ELSE IF RIsZero(a)
        THEN IF RIsZero(d) THEN NoneV ELSE Num(RMul(h, d))
        ELSE IF RIsZero(d)
        THEN Tuple(<<Tuple(<<root(-1, 1), root(-1, 0)>>),
                     Tuple(<<root(1, 0), root(1, 1)>>)>>)
        ELSE IF RIsZero(arg) THEN NoneV
        ELSE IF Len(popped0) > 0 THEN Tuple(popped0)
        ELSE NoneV

(***************************************************************************)
(* src/src/minecraft_motion_tools/mmt.py                                   *)
(***************************************************************************)
\* returns a bool and never raises; the callers raise on False
mmt_check_values(a, d) == RLe(I(0), d) /\ RLt(d, I(1)) /\ RLe(I(0), a)

mmt_v_from_t(v0, t, a, d, after) ==
    LET a1 == IF after THEN RMul(a, RSub(I(1), d)) ELSE a
    IN  IF ~mmt_check_values(a, d) THEN ParamError
        ELSE IF RIsZero(d) THEN Num(RSub(v0, RMul(a, t)))
        ELSE Num(RDiv(RSub(RMul(RAdd(RMul(v0, d), a1),
                                RPow(RSub(I(1), d), t)), a1), d))

mmt_v0_from_v_t(v, t, a, d, after) ==
    LET q == RPow(RSub(I(1), d), RNeg(t))
    IN  IF ~mmt_check_values(a, d) THEN ParamError
        ELSE IF RIsZero(d) THEN Num(RAdd(v, RMul(t, a)))
        ELSE IF after
        THEN Num(RSub(RAdd(RMul(RAdd(v, RDiv(RMul(a, RSub(I(1), d)), d)), q),
                           a), RDiv(a, d)))
        ELSE Num(RSub(RMul(RAdd(v, RDiv(a, d)), q), RDiv(a, d)))

mmt_t_from_v0_v(v0, v, a, d, after) ==
    LET arg0 == IF after THEN RSub(RAdd(RMul(v0, d), a), RMul(a, d))
                ELSE RAdd(RMul(v0, d), a)
        arg == IF after
               THEN RDiv(RSub(RAdd(RMul(v, d), a), RMul(a, d)), arg0)
               ELSE RDiv(RAdd(RMul(v, d), a), arg0)
    IN  IF ~mmt_check_values(a, d) THEN ParamError
        ELSE IF RIsZero(d)
        THEN IF RIsZero(a) THEN NoneV ELSE Num(RDiv(RSub(v0, v), a))
        ELSE IF RIsZero(arg0) THEN NoneV
        ELSE IF RLe(arg, I(0)) THEN NoneV
        ELSE SymNum("log", <<arg, RSub(I(1), d)>>)

\* a faulty variant of mmt_p_from_t whose slowed_pos branches subtract the
\* acceleration as the other branch does; ModulesAgree must reject it
mmt_p_from_t_unslowed(v0, t, a, d, after, slowed_pos) ==
    LET q == RPow(RSub(I(1), d), t)
        omq == RSub(I(1), q)
        a1 == IF after THEN RMul(a, RSub(I(1), d)) ELSE a
    IN  IF ~mmt_check_values(a, d) THEN ParamError
        ELSE IF RIsZero(d)
        THEN Num(RMul(RSub(v0, RDiv(RMul(a, RAdd(t, I(-1))), I(2))), t))
        ELSE Num(RDiv(RSub(RDiv(RMul(RAdd(RMul(v0, d), a1), omq), d),
                           RMul(a1, t)), d))

mmt_p_from_t(v0, t, a, d, after, slowed_pos) ==
    LET q == RPow(RSub(I(1), d), t)
        omq == RSub(I(1), q)
        a1 == IF after THEN RMul(a, RSub(I(1), d)) ELSE a
    IN  IF ~mmt_check_values(a, d) THEN ParamError
        ELSE IF RIsZero(d)
        THEN Num(RMul(RSub(v0, RDiv(RMul(a, RAdd(t, IF slowed_pos THEN I(1)
                                                    ELSE I(-1))), I(2))), t))
        ELSE IF slowed_pos
        THEN IF after
             THEN Num(RDiv(RSub(RDiv(RMul(RAdd(RMul(v0, d),
                                               RMul(a, RSub(I(1), d))), omq),
                                     d),
                                RMul(a, t)), d))
             ELSE Num(RDiv(RSub(RDiv(RMul(RAdd(RMul(v0, d), a), omq), d),
                                RMul(RMul(a, RAdd(I(1), d)), t)), d))
        ELSE Num(RDiv(RSub(RDiv(RMul(RAdd(RMul(v0, d), a1), omq), d),
                           RMul(a1, t)), d))

mmt_v0_from_p_t(p, t, a, d, after, slowed_pos) ==
    LET q == RPow(RSub(I(1), d), t)
        omq == RSub(I(1), q)
        a1 == IF after THEN RMul(a, RSub(I(1), d)) ELSE a
    IN  IF ~mmt_check_values(a, d) THEN ParamError
        ELSE IF RIsZero(t) THEN NoneV
        ELSE IF RIsZero(d)
        THEN Num(RAdd(RDiv(p, t),
                      RDiv(RMul(RAdd(t, IF slowed_pos THEN I(1) ELSE I(-1)),
                                a), I(2))))
        ELSE IF slowed_pos
        THEN IF after
             THEN Num(RSub(RAdd(RDiv(RAdd(RMul(p, d), RMul(a, t)), omq), a),
                           RDiv(a, d)))
             ELSE Num(RSub(RDiv(RAdd(RMul(p, d),
                                     RMul(RMul(a, t), RAdd(I(1), d))), omq),
                           RDiv(a, d)))
        ELSE Num(RSub(RDiv(RAdd(RMul(p, d), RMul(a1, t)), omq),
                      RDiv(a1, d)))

\* d == 0 is tested before check_values
mmt_max_height_tick_from_v0(v0, a, d, after, slowed_pos) ==
    LET a1 == IF after THEN RMul(a, RSub(I(1), d)) ELSE a
        arg0 == IF slowed_pos
                THEN IF after THEN RAdd(RMul(v0, d), RMul(a, RSub(I(1), d)))
                     ELSE RAdd(RMul(v0, d), a)
                ELSE RAdd(RMul(v0, d), a1)
        arg == IF slowed_pos
               THEN IF after THEN RDiv(a, arg0)
                    ELSE RDiv(RMul(a, RAdd(I(1), d)), arg0)
               ELSE RDiv(a1, arg0)
    IN  IF RIsZero(d)
        THEN IF RIsZero(a) THEN NoneV
             ELSE Num(RAdd(RDiv(v0, a), IF slowed_pos THEN I(-1) ELSE I(0)))
        ELSE IF ~mmt_check_values(a, d) THEN ParamError
        ELSE IF RIsZero(arg0) THEN NoneV
        ELSE IF RLe(arg, I(0)) THEN NoneV
        ELSE SymNum("log", <<arg, RSub(I(1), d)>>)

mmt_max_height_from_v0(v0, a, d, after, slowed_pos) ==
    LET t == mmt_max_height_tick_from_v0(v0, a, d, after, slowed_pos)
    IN  IF ~mmt_check_values(a, d) THEN ParamError
        ELSE IF RIsZero(a)
        THEN IF RIsZero(d) THEN NoneV ELSE Num(RDiv(v0, d))
        ELSE IF IsNone(t) THEN NoneV
        ELSE mmt_p_from_t(v0, CeilTick(t), a, d, after, slowed_pos)

\* the peak is asked for with slowed_pos left at its default, and p is
\* compared against it whatever it is: p > None is a TypeError
mmt_t_from_v0_p(v0, p, a, d, after, slowed_pos) ==
    LET peak == mmt_max_height_from_v0(v0, a, d, after, TRUE)
        lin == RAdd(v0, RDiv(IF slowed_pos THEN RNeg(a) ELSE a, I(2)))
        q == RSub(RSquare(lin), RMul(RMul(p, a), I(2)))
        larg == RSub(I(1), RDiv(RMul(p, d), v0))
        time(br) ==
            SymNum("mmt_t_lambertw",
                   <<I(br), v0, p, a, d,
                     IF after THEN I(1) ELSE I(0),
                     IF slowed_pos THEN I(1) ELSE I(0)>>)
    IN  IF ~mmt_check_values(a, d) THEN ParamError
        ELSE IF RIsZero(a) /\ RIsZero(v0) THEN NoneV
        ELSE IF IsNone(peak) THEN Raise("TypeError")
        ELSE IF RLt(peak.val, p) THEN NoneV
        ELSE IF RIsZero(d)
        THEN IF RIsZero(a) THEN NoneV
             ELSE IF RLt(q, I(0)) THEN NoneV
             ELSE IF RIsZero(q) THEN Num(RDiv(lin, a))
             ELSE Tuple(<<SymNum("mmt_quad_minus", <<lin, q, a>>),
                          SymNum("mmt_quad_plus", <<lin, q, a>>)>>)
        ELSE IF RIsZero(a)
        THEN IF RLe(larg, I(0)) THEN NoneV
             ELSE SymNum("log", <<larg, RSub(I(1), d)>>)
        ELSE Tuple(<<time(-1), time(0)>>)

(***************************************************************************)
(* src/src/minecraft_motion_tools/acceleration.py                          *)
(*                                                                         *)
(* Its check_values is imported from the package's velocity module, and    *)
(* is called with the drag alone.                                          *)
(***************************************************************************)
velocity_check_values(d) ==
    IF RLt(d, I(0)) \/ RLe(I(1), d) THEN ParamError ELSE NoneV

\* a faulty variant of a_from_double_v_t that skips a /= 1 - d;
\* AccelerationRecovered must reject it
a_from_double_v_t_unadjusted(first, second, d, after) ==
    LET chk == velocity_check_values(d)
        v1 == first[1]
        t1 == first[2]
        v2 == second[1]
        t2 == second[2]
        q1 == RPow(RSub(I(1), d), t1)
        q2 == RPow(RSub(I(1), d), t2)
        arg == RSub(q2, q1)
        a == RDiv(RMul(RSub(RMul(v2, q1), RMul(v1, q2)), d), arg)
    IN  IF IsRaise(chk) THEN chk
        ELSE IF RIsZero(d)
        THEN IF RIsZero(RSub(t2, t1)) THEN NoneV
             ELSE Num(RDiv(RSub(v1, v2), RSub(t2, t1)))
        ELSE IF RIsZero(arg) THEN NoneV
        ELSE Num(a)

a_from_double_v_t(first, second, d, after) ==
    LET chk == velocity_check_values(d)
        v1 == first[1]
        t1 == first[2]
        v2 == second[1]
        t2 == second[2]
        q1 == RPow(RSub(I(1), d), t1)
        q2 == RPow(RSub(I(1), d), t2)
        arg == RSub(q2, q1)
        a == RDiv(RMul(RSub(RMul(v2, q1), RMul(v1, q2)), d), arg)
    IN  IF IsRaise(chk) THEN chk
        ELSE IF RIsZero(d)
        THEN IF RIsZero(RSub(t2, t1)) THEN NoneV
             ELSE Num(RDiv(RSub(v1, v2), RSub(t2, t1)))
        ELSE IF RIsZero(arg) THEN NoneV
        ELSE IF after THEN Num(RDiv(a, RSub(I(1), d)))
        ELSE Num(a)

\* a faulty variant of a_from_double_p_t whose d == 0 guard omits
\* t2 - t1 == 0; CoincidentTimesGiveNone must reject it
a_from_double_p_t_coincident_unguarded(first, second, d, after, k) ==
    LET chk == velocity_check_values(d)
        p1 == first[1]
        t1 == first[2]
        p2 == second[1]
        t2 == second[2]
        k1 == IF after THEN RDiv(k, RSub(I(1), d)) ELSE k
        c == RAdd(I(1), RMul(k1, d))
        q1 == RPow(RSub(I(1), d), t1)
        q2 == RPow(RSub(I(1), d), t2)
        arg == RSub(RMul(t2, RSub(I(1), q1)), RMul(t1, RSub(I(1), q2)))
        a == RDiv(RDiv(RMul(RSub(RMul(p1, RSub(I(1), q2)),
                                 RMul(p2, RSub(I(1), q1))), d), c), arg)
    IN  IF IsRaise(chk) THEN chk
        ELSE IF RIsZero(d)
        THEN IF RIsZero(t1) \/ RIsZero(t2) THEN NoneV
             ELSE IF RIsZero(RSub(t2, t1)) THEN Raise("ZeroDivisionError")
             ELSE Num(RDiv(RMul(RSub(RDiv(p1, t1), RDiv(p2, t2)), I(2)),
                           RSub(t2, t1)))
        ELSE IF RIsZero(c) THEN NoneV
        ELSE IF RIsZero(arg) THEN NoneV
        ELSE IF after THEN Num(RDiv(a, RSub(I(1), d)))
        ELSE Num(a)

a_from_double_p_t(first, second, d, after, k) ==
    LET chk == velocity_check_values(d)
        p1 == first[1]
        t1 == first[2]
        p2 == second[1]
        t2 == second[2]
        k1 == IF after THEN RDiv(k, RSub(I(1), d)) ELSE k
        c == RAdd(I(1), RMul(k1, d))
        q1 == RPow(RSub(I(1), d), t1)
        q2 == RPow(RSub(I(1), d), t2)
        arg == RSub(RMul(t2, RSub(I(1), q1)), RMul(t1, RSub(I(1), q2)))
        a == RDiv(RDiv(RMul(RSub(RMul(p1, RSub(I(1), q2)),
                                 RMul(p2, RSub(I(1), q1))), d), c), arg)
    IN  IF IsRaise(chk) THEN chk
        ELSE IF RIsZero(d)
        THEN IF RIsZero(t1) \/ RIsZero(t2) \/ RIsZero(RSub(t2, t1))
             THEN NoneV
             ELSE Num(RDiv(RMul(RSub(RDiv(p1, t1), RDiv(p2, t2)), I(2)),
                           RSub(t2, t1)))
        ELSE IF RIsZero(c) THEN NoneV
        ELSE IF RIsZero(arg) THEN NoneV
        ELSE IF after THEN Num(RDiv(a, RSub(I(1), d)))
        ELSE Num(a)

a_from_v_t_p_t(first, second, d, after, k) ==
    LET chk == velocity_check_values(d)
        v1 == first[1]
        t1 == first[2]
        p2 == second[1]
        t2 == second[2]
        k1 == IF after THEN RDiv(k, RSub(I(1), d)) ELSE k
        c == RAdd(I(1), RMul(k1, d))
        q1 == RPow(RSub(I(1), d), t1)
        q2 == RPow(RSub(I(1), d), t2)
        arg0 == RMul(t2, RAdd(RSub(RSub(t2, RMul(I(2), t1)), I(1)),
                              RMul(I(2), k)))
        arg == RSub(RDiv(RSub(I(1), q2), d), RMul(RMul(t2, c), q1))
        a == RDiv(RSub(RMul(RMul(p2, d), q1), RMul(v1, RSub(I(1), q2))), arg)
    IN  IF IsRaise(chk) THEN chk
        ELSE IF RIsZero(d)
        THEN IF RIsZero(arg0) THEN NoneV
             ELSE Num(RDiv(RMul(I(2), RSub(RMul(v1, t2), p2)), arg0))
        ELSE IF RIsZero(arg) THEN NoneV
        ELSE IF after THEN Num(RDiv(a, RSub(I(1), d)))
        ELSE Num(a)

\* a list of surds, or the exception that ended the call
solve_quadratic(a, b, c) ==
    LET arg == RSub(RSquare(b), RMul(RMul(I(4), a), c))
        mid == RDiv(RDiv(RNeg(b), a), I(2))
        \* 1 / |2a|: solutions.sort() puts the root with -sqrt first
        h == RDiv(I(1), RMul(I(2), IF RLt(a, I(0)) THEN RNeg(a) ELSE a))
    IN  IF RIsZero(a)
        THEN IF RIsZero(b) THEN Raise("ZeroDivisionError")
             ELSE [kind |-> "list", items |-> <<SurdOfRat(RDiv(RNeg(c), b), I(0))>>]
        ELSE IF RIsZero(arg)
        THEN [kind |-> "list", items |-> <<SurdOfRat(mid, I(0))>>]
        ELSE IF RLt(I(0), arg)
        THEN [kind |-> "list",
              items |-> <<Surd(mid, RNeg(h), arg), Surd(mid, h, arg)>>]
        ELSE [kind |-> "list", items |-> << >>]

RECURSIVE IsPowerOfTwo(_)
IsPowerOfTwo(n) == n = 1 \/ (n % 2 = 0 /\ IsPowerOfTwo(n \div 2))

\* a float holds the candidate exactly: it is a rational whose denominator is
\* a power of two (the numbers here are far below 2 ** 53)
Representable(x) ==
    /\ IsRat(SurdValue(x))
    /\ IsPowerOfTwo(SurdValue(x).val[2])

\* ((k - 0.5) * a - v2) ** 2 + 2 * a * p2 < 0 for a candidate a.  The test is
\* made on floats: where the exact value is zero and the candidate is only
\* approximated, the computed value falls on either side of zero, and low
\* says that it falls below
Infeasible(x, v2, p2, k, low) ==
    LET D == x[3]
        lin == SAdd(SScale(RSub(k, Half), x), SurdOfRat(RNeg(v2), D))
        sign == SSign(SAdd(SMul(lin, lin), SScale(RMul(I(2), p2), x)))
    IN  sign < 0 \/ (sign = 0 /\ low /\ ~Representable(x))

RemoveAt(seq, i) == [j \in 1..(Len(seq) - 1) |-> IF j < i THEN seq[j]
                                                  ELSE seq[j + 1]]

\* for i in range(len(a)): if <infeasible a[i]>: a.pop(i)
\* i counts from 1 here; n is the length the range was built from
RECURSIVE PopForward(_, _, _, _, _, _, _)
PopForward(a, i, n, v2, p2, k, low) ==
    IF i > n THEN [kind |-> "list", items |-> a]
    ELSE IF i > Len(a) THEN Raise("IndexError")
    ELSE IF Infeasible(a[i], v2, p2, k, low)
    THEN PopForward(RemoveAt(a, i), i + 1, n, v2, p2, k, low)
    ELSE PopForward(a, i + 1, n, v2, p2, k, low)

SurdTuple(a) == Tuple([i \in 1..Len(a) |-> SurdValue(a[i])])

\* the d = 0 branch of a_from_double_v_p
a_from_double_v_p_no_drag(first, second, k, low) ==
    LET v1 == first[1]
        p1 == first[2]
        v2 == second[1]
        p2 == second[2]
        arg == RAdd(RMul(I(2), RSub(p2, p1)),
                    RMul(RSub(I(1), RMul(I(2), k)), RSub(v2, v1)))
        a == SurdOfRat(RDiv(RSub(RSquare(v1), RSquare(v2)), arg), I(0))
    IN  IF RIsZero(arg) THEN NoneV
        ELSE IF Infeasible(a, v1, p1, k, low) \/ Infeasible(a, v2, p2, k, low)
        THEN NoneV
        ELSE SurdTuple(<<a>>)

\* the d = 0 branch of a_from_v_t_v_p
a_from_v_t_v_p_no_drag(first, second, k, low) ==
    LET v1 == first[1]
        t1 == first[2]
        v2 == second[1]
        p2 == second[2]
        a == solve_quadratic(
                 RMul(t1, RSub(RSub(RMul(I(2), k), I(1)), t1)),
                 RAdd(RMul(RSub(v2, v1), RSub(I(1), RMul(I(2), k))),
                      RMul(I(2), RSub(p2, RMul(v1, t1)))),
                 RSub(RSquare(v2), RSquare(v1)))
        kept == PopForward(a.items, 1, Len(a.items), v2, p2, k, low)
    IN  IF IsRaise(a) THEN a
        ELSE IF IsRaise(kept) THEN kept
        ELSE IF kept.items = << >> THEN NoneV
        ELSE SurdTuple(kept.items)

\* the d = 0 branch of a_from_p_t_v_p
a_from_p_t_v_p_no_drag(first, second, k, low) ==
    LET p1 == first[1]
        t1 == first[2]
        v2 == second[1]
        p2 == second[2]
        a == solve_quadratic(
                 RAdd(RMul(k, RSub(k, I(1))),
                      RDiv(RSub(I(1), RSquare(t1)), I(4))),
                 RSub(RAdd(RMul(v2, RSub(I(1), RMul(I(2), k))),
                           RMul(I(2), p2)), p1),
                 RSub(RSquare(v2), RDiv(RSquare(p1), RSquare(t1))))
        kept == PopForward(a.items, 1, Len(a.items), v2, p2, k, low)
    IN  IF RIsZero(t1) THEN NoneV
        ELSE IF IsRaise(a) THEN a
        ELSE IF IsRaise(kept) THEN kept
        ELSE IF kept.items = << >> THEN NoneV
        ELSE SurdTuple(kept.items)

(***************************************************************************)
(* The d > 0 branches of the compound solvers.  What they hand to          *)
(* solve_equation(a, b, c, k) are numbers r * (1 - d) ** e with r and e    *)
(* rational, so the signs solve_equation branches on are computed exactly  *)
(* wherever rational arithmetic decides them.  The values of phi and delta *)
(* at the points the solver visits are transcendental: their signs are     *)
(* inputs of the steps, drawn from the signs they can take.                *)
(*   sa, sb, sc   the signs of a, b, c                                     *)
(*   sbac         the sign of b - a * c                                    *)
(*   s1k          the sign of 1 - k (k > 0 always: it is a power of 1 - d) *)
(*   acmp         the signs a - 1 can have                                 *)
(*   xeq          the truth values math.log(k, a) == -c can have           *)
(*   branch       2 * c / (b - a * c) == -1, used when a == 1              *)
(***************************************************************************)
Signs == {-1, 1}

Solve(f) == [kind |-> "solve", f |-> f]

NeedsSolve(r) == r.kind = "solve"

a_from_double_v_p(first, second, d, after, k, low) ==
    LET chk == velocity_check_values(d)
        v1 == first[1]
        p1 == first[2]
        v2 == second[1]
        p2 == second[2]
        k1 == IF after THEN RDiv(k, RSub(I(1), d)) ELSE k
        c1 == RAdd(I(1), RMul(k1, d))
        ek == RDiv(RAdd(RSub(v2, v1), RMul(RSub(p2, p1), d)), c1)
    IN  IF IsRaise(chk) THEN chk
        ELSE IF RIsZero(d) THEN a_from_double_v_p_no_drag(first, second, k, low)
        ELSE IF RIsZero(c1) THEN NoneV
        ELSE Solve([sa |-> 1, sb |-> RSign(v1), sc |-> RSign(v2),
                    sbac |-> RSign(RSub(v1, v2)), s1k |-> RSign(ek),
                    acmp |-> {0}, xeq |-> {FALSE},
                    branch |-> (v1 = RNeg(v2))])

a_from_v_t_v_p(first, second, d, after, k, low) ==
    LET chk == velocity_check_values(d)
        v1 == first[1]
        t1 == first[2]
        v2 == second[1]
        p2 == second[2]
        k1 == IF after THEN RDiv(k, RSub(I(1), d)) ELSE k
        c1 == RAdd(I(1), RMul(k1, d))
        q == RPow(RSub(I(1), d), RNeg(t1))
        \* gamma = (1 - d) ** eg
        eg == RSub(RDiv(RDiv(RSub(q, I(1)), d), c1), t1)
        ek == RDiv(RAdd(RSub(v2, RMul(v1, q)), RMul(p2, d)), c1)
    IN  IF IsRaise(chk) THEN chk
        ELSE IF RIsZero(d) THEN a_from_v_t_v_p_no_drag(first, second, k, low)
        ELSE IF RIsZero(c1) THEN NoneV
        ELSE Solve([sa |-> 1, sb |-> RSign(v1), sc |-> RSign(v2),
                    sbac |-> RSign(RSub(v1, v2)), s1k |-> RSign(ek),
                    acmp |-> {-RSign(eg)},
                    xeq |-> {~RIsZero(eg)
                             /\ RDiv(ek, eg) = RNeg(RMul(v2, d))},
                    branch |-> (v1 = RNeg(v2))])

a_from_p_t_v_p(first, second, d, after, k, low) ==
    LET chk == velocity_check_values(d)
        p1 == first[1]
        t1 == first[2]
        v2 == second[1]
        p2 == second[2]
        k1 == IF after THEN RDiv(k, RSub(I(1), d)) ELSE k
        c1 == RAdd(I(1), RMul(k1, d))
        arg == RSub(I(1), RPow(RSub(I(1), d), t1))
        \* gamma = g0 * (1 - d) ** eg and a = r * (1 - d) ** eg
        g0 == RDiv(d, arg)
        eg == RSub(RDiv(t1, arg), RDiv(RDiv(I(1), d), c1))
        r == RMul(RMul(g0, c1), t1)
        c == RMul(v2, d)
        ek == RDiv(RAdd(v2, RMul(RSub(p2, RDiv(p1, arg)), d)), c1)
    IN  IF IsRaise(chk) THEN chk
        ELSE IF RIsZero(d) THEN a_from_p_t_v_p_no_drag(first, second, k, low)
        ELSE IF RIsZero(c1) THEN NoneV
        ELSE IF RIsZero(arg) THEN NoneV
        ELSE Solve([sa |-> RSign(r), sb |-> RSign(RMul(g0, p1)),
                    sc |-> RSign(v2),
                    sbac |-> RSign(RMul(g0, RSub(p1, RMul(RMul(c1, t1), v2)))),
                    s1k |-> RSign(ek),
                    acmp |-> IF RSign(r) <= 0 THEN {-1}
                             ELSE IF RIsZero(eg) THEN {RSign(RSub(r, I(1)))}
                             ELSE IF r = I(1) THEN {-RSign(eg)}
                             ELSE IF RLt(I(1), r) /\ RSign(eg) < 0 THEN {1}
                             ELSE IF RLt(r, I(1)) /\ RSign(eg) > 0 THEN {-1}
                             ELSE Signs,
                    xeq |-> IF r = I(1) /\ ~RIsZero(eg)
                            THEN {RDiv(ek, eg) = RNeg(c)}
                            ELSE IF RIsZero(ek) THEN {RIsZero(c)}
                            ELSE IF RIsZero(c) THEN {FALSE}
                            ELSE BOOLEAN,
                    branch |-> (RMul(g0, p1) = RNeg(v2))])

\* the lists phi1z(a, b, c) can return, as [n |-> length, nan |-> its one
\* element is nan]; f.acmp is the sign of a - 1
phi1z(f) ==
    IF f.sc = 0 THEN {[n |-> 1, nan |-> TRUE]}
    ELSE IF f.sc * f.sbac > 0 THEN {[n |-> 1, nan |-> FALSE]}
    ELSE IF f.sa > 0 /\ f.acmp = 0
    THEN {[n |-> IF f.branch THEN 1 ELSE 2, nan |-> FALSE]}
    ELSE IF f.sa > 0 /\ f.acmp > 0 THEN {[n |-> 2, nan |-> FALSE]}
    ELSE {[n |-> 0, nan |-> FALSE], [n |-> 2, nan |-> FALSE]}

\* the adjacent pairs of a sequence of signs whose product is < 0
SignChanges(s) == Cardinality({i \in 1..(Len(s) - 1) : s[i] * s[i + 1] < 0})

\* the sign of delta(a, a, b, c, k, right); -k counts as -1, inf as 1
delta_at_a(f, right) ==
    LET out == (right /\ f.sbac > 0) \/ (~right /\ f.sbac < 0)
    IN  IF f.acmp = 0 THEN f.s1k
        ELSE IF f.acmp > 0 THEN (IF out THEN 1 ELSE -1)
        ELSE (IF out THEN -1 ELSE 1)

\* the sign of delta(0, a, b, c, k) when b # 0
delta_at_0(f) == IF -(f.sa * f.sb) > 0 THEN -1 ELSE 1

\* the sign of delta(math.inf, a, b, c, k)
delta_at_inf(f) == IF f.sc = 0 THEN f.s1k ELSE IF f.sc < 0 THEN 1 ELSE -1

\* delta1_zeros once 0 and a are inserted: each point with the sign of delta
\* there as a left endpoint (l) and as a right endpoint (r); zs are the
\* signs at the zeros of phi and a falls after j of them
Partition(f, zs, j) ==
    LET zero(i) == [l |-> zs[i], r |-> zs[i]]
        z == [i \in 1..Len(zs) |-> zero(i)]
        p0 == [l |-> IF f.sb = 0 THEN 0 ELSE delta_at_0(f), r |-> 0]
        pa == [l |-> delta_at_a(f, TRUE), r |-> delta_at_a(f, FALSE)]
    IN  IF f.sa > 0
        THEN <<p0>> \o SubSeq(z, 1, j) \o <<pa>> \o SubSeq(z, j + 1, Len(z))
        ELSE <<p0>> \o z

Brackets(pts) ==
    Cardinality({i \in 1..(Len(pts) - 1) : pts[i].l * pts[i + 1].r < 0})

(***************************************************************************)
(* src/examples/current_position_from_time_passed.py: t is the entered     *)
(* time in ticks; the script leaves with a message when t < 0, and prints  *)
(* p_from_t(1, t, a=-0.1, d=0.05, k=0) otherwise.                          *)
(***************************************************************************)
Exit == [kind |-> "exit"]

current_position_from_time_passed(t) ==
    IF RLt(t, I(0)) THEN Exit
    ELSE p_from_t(I(1), t, Q(-1, 10), Q(1, 20), TRUE, I(0))

(***************************************************************************)
(* Input sets.                                                             *)
(***************************************************************************)
Vels == {I(n) : n \in -MaxV..MaxV}
Ticks == {I(n) : n \in -MaxT..MaxT}
Accs == {I(n) : n \in -1..MaxA}
Drags == {Q(n, DDen) : n \in -1..DDen}
Ks == {I(n) : n \in -(MaxK + 1)..MaxK}
Modules == {"minecraft_motion_tools", "mmt"}

NoArgs == [m |-> "none"]
NoFrame == [fn |-> "none"]

Init ==
    /\ pc = "idle"
    /\ op = "none"
    /\ args = NoArgs
    /\ result = NoneV
    /\ frame = NoFrame

Return ==
    /\ pc # "idle"
    /\ pc' = "idle"
    /\ op' = "none"
    /\ args' = NoArgs
    /\ result' = NoneV
    /\ frame' = NoFrame

(***************************************************************************)
(* Calls of the public functions of minecraft_motion_tools.py.             *)
(***************************************************************************)
Heights == {I(n) : n \in 0..MaxV}
Top == "minecraft_motion_tools"

Call_v_from_t ==
    /\ pc = "idle"
    /\ \E v0 \in Vels, t \in Ticks, a \in Accs, d \in Drags,
          after \in BOOLEAN :
        /\ args' = [m |-> Top, v0 |-> v0, t |-> t, a |-> a, d |-> d,
                    after |-> after]
        /\ result' = v_from_t(v0, t, a, d, after)
    /\ op' = "v_from_t"
    /\ pc' = "returned"
    /\ UNCHANGED frame

Call_p_from_t ==
    /\ pc = "idle"
    /\ \E v0 \in Vels, t \in Ticks, a \in Accs, d \in Drags,
          after \in BOOLEAN, k \in Ks :
        /\ args' = [m |-> Top, v0 |-> v0, t |-> t, a |-> a, d |-> d,
                    after |-> after, k |-> k]
        /\ result' = p_from_t(v0, t, a, d, after, k)
    /\ op' = "p_from_t"
    /\ pc' = "returned"
    /\ UNCHANGED frame

Call_max_height_tick_from_v0 ==
    /\ pc = "idle"
    /\ \E v0 \in Vels, a \in Accs, d \in Drags, after \in BOOLEAN, k \in Ks :
        /\ args' = [m |-> Top, v0 |-> v0, a |-> a, d |-> d, after |-> after,
                    k |-> k]
        /\ result' = max_height_tick_from_v0(v0, a, d, after, k)
    /\ op' = "max_height_tick_from_v0"
    /\ pc' = "returned"
    /\ UNCHANGED frame

Call_max_height_from_v0 ==
    /\ pc = "idle"
    /\ \E v0 \in Vels, a \in Accs, d \in Drags, after \in BOOLEAN, k \in Ks :
        /\ args' = [m |-> Top, v0 |-> v0, a |-> a, d |-> d, after |-> after,
                    k |-> k]
        /\ result' = max_height_from_v0(v0, a, d, after, k)
    /\ op' = "max_height_from_v0"
    /\ pc' = "returned"
    /\ UNCHANGED frame

Call_v0_from_max_height ==
    /\ pc = "idle"
    /\ \E h \in Heights, a \in Accs, d \in Drags, after \in BOOLEAN,
          k \in Ks :
        \E w1 \in WSigns(h, a, d, after, k), w2 \in WSigns(h, a, d, after, k) :
            /\ w2 <= w1
            /\ args' = [m |-> Top, h |-> h, a |-> a, d |-> d, after |-> after,
                        k |-> k, w1 |-> w1, w2 |-> w2]
            /\ result' = v0_from_max_height(h, a, d, after, k, w1, w2)
    /\ op' = "v0_from_max_height"
    /\ pc' = "returned"
    /\ UNCHANGED frame

Call_v0_from_v_t ==
    /\ pc = "idle"
    /\ \E v \in Vels, t \in Ticks, a \in Accs, d \in Drags,
          after \in BOOLEAN :
        /\ args' = [m |-> Top, v |-> v, t |-> t, a |-> a, d |-> d,
                    after |-> after]
        /\ result' = v0_from_v_t(v, t, a, d, after)
    /\ op' = "v0_from_v_t"
    /\ pc' = "returned"
    /\ UNCHANGED frame

Call_v0_from_p_t ==
    /\ pc = "idle"
    /\ \E p \in Vels, t \in Ticks, a \in Accs, d \in Drags,
          after \in BOOLEAN, k \in Ks :
        /\ args' = [m |-> Top, p |-> p, t |-> t, a |-> a, d |-> d,
                    after |-> after, k |-> k]
        /\ result' = v0_from_p_t(p, t, a, d, after, k)
    /\ op' = "v0_from_p_t"
    /\ pc' = "returned"
    /\ UNCHANGED frame

Call_t_from_v0_v ==
    /\ pc = "idle"
    /\ \E v0 \in Vels, v \in Vels, a \in Accs, d \in Drags,
          after \in BOOLEAN :
        /\ args' = [m |-> Top, v0 |-> v0, v |-> v, a |-> a, d |-> d,
                    after |-> after]
        /\ result' = t_from_v0_v(v0, v, a, d, after)
    /\ op' = "t_from_v0_v"
    /\ pc' = "returned"
    /\ UNCHANGED frame

Call_t_from_v0_p ==
    /\ pc = "idle"
    /\ \E v0 \in Vels, p \in Vels, a \in Accs, d \in Drags,
          after \in BOOLEAN, k \in Ks :
        \E lam \in LambertRegions(t_from_v0_p_arg_sign(v0, p, a, d, after, k)) :
            /\ args' = [m |-> Top, v0 |-> v0, p |-> p, a |-> a, d |-> d,
                        after |-> after, k |-> k, lam |-> lam]
            /\ result' = t_from_v0_p(v0, p, a, d, after, k, lam)
    /\ op' = "t_from_v0_p"
    /\ pc' = "returned"
    /\ UNCHANGED frame

Call_v0_t_from_v_p ==
    /\ pc = "idle"
    /\ \E v \in Vels, p \in Vels, a \in Accs, d \in Drags,
          after \in BOOLEAN, k \in Ks :
        \E lam \in LambertRegions(v0_t_from_v_p_arg_sign(v, p, a, d, after, k)) :
            /\ args' = [m |-> Top, v |-> v, p |-> p, a |-> a, d |-> d,
                        after |-> after, k |-> k, lam |-> lam]
            /\ result' = v0_t_from_v_p(v, p, a, d, after, k, lam)
    /\ op' = "v0_t_from_v_p"
    /\ pc' = "returned"
    /\ UNCHANGED frame

Run_current_position_from_time_passed ==
    /\ pc = "idle"
    /\ \E t \in Ticks :
        /\ args' = [m |-> "examples", t |-> t]
        /\ result' = current_position_from_time_passed(t)
    /\ op' = "current_position_from_time_passed"
    /\ pc' = "returned"
    /\ UNCHANGED frame

\* calls of the functions of the package module mmt.py
Call_mmt_max_height_tick_from_v0 ==
    /\ pc = "idle"
    /\ \E v0 \in Vels, a \in Accs, d \in Drags, after \in BOOLEAN,
          slowed_pos \in BOOLEAN :
        /\ args' = [m |-> "mmt", v0 |-> v0, a |-> a, d |-> d,
                    after |-> after, slowed_pos |-> slowed_pos]
        /\ result' = mmt_max_height_tick_from_v0(v0, a, d, after, slowed_pos)
    /\ op' = "max_height_tick_from_v0"
    /\ pc' = "returned"
    /\ UNCHANGED frame

Call_mmt_max_height_from_v0 ==
    /\ pc = "idle"
    /\ \E v0 \in Vels, a \in Accs, d \in Drags, after \in BOOLEAN,
          slowed_pos \in BOOLEAN :
        /\ args' = [m |-> "mmt", v0 |-> v0, a |-> a, d |-> d,
                    after |-> after, slowed_pos |-> slowed_pos]
        /\ result' = mmt_max_height_from_v0(v0, a, d, after, slowed_pos)
    /\ op' = "max_height_from_v0"
    /\ pc' = "returned"
    /\ UNCHANGED frame

Call_mmt_t_from_v0_p ==
    /\ pc = "idle"
    /\ \E v0 \in Vels, p \in Vels, a \in Accs, d \in Drags,
          after \in BOOLEAN, slowed_pos \in BOOLEAN :
        /\ args' = [m |-> "mmt", v0 |-> v0, p |-> p, a |-> a, d |-> d,
                    after |-> after, slowed_pos |-> slowed_pos]
        /\ result' = mmt_t_from_v0_p(v0, p, a, d, after, slowed_pos)
    /\ op' = "t_from_v0_p"
    /\ pc' = "returned"
    /\ UNCHANGED frame

Next ==
    \/ Call_v_from_t
    \/ Call_p_from_t
    \/ Call_max_height_tick_from_v0
    \/ Call_max_height_from_v0
    \/ Call_v0_from_max_height
    \/ Call_v0_from_v_t
    \/ Call_v0_from_p_t
    \/ Call_t_from_v0_v
    \/ Call_t_from_v0_p
    \/ Call_v0_t_from_v_p
    \/ Run_current_position_from_time_passed
    \/ Call_mmt_max_height_tick_from_v0
    \/ Call_mmt_max_height_from_v0
    \/ Call_mmt_t_from_v0_p
    \/ Return

Spec == Init /\ [][Next]_vars

(***************************************************************************)
(* Properties of the calls of minecraft_motion_tools.py.                   *)
(***************************************************************************)
Returned(f) == pc = "returned" /\ op = f /\ args.m = Top

OutOfRange(a, d) == RLt(a, I(0)) \/ RLt(d, I(0)) \/ RLe(I(1), d)

\* C1: every public function of minecraft_motion_tools.py called with a < 0
\* or d < 0 or d >= 1 ends with the parameter-range error, whatever its other
\* arguments are: it returns neither a value nor None, and no other check
\* (such as the one on the height) comes first.
RangeErrorFirst ==
    (pc = "returned" /\ args.m = Top /\ OutOfRange(args.a, args.d)) =>
        result = ParamError

RangeErrorFirstWitness ==
    /\ Returned("v0_from_max_height")
    /\ args.a = I(-1)
    /\ args.d = I(0)
    /\ args.h = I(0)
    /\ result = ParamError

\* the phase-adjusted 1 + k*d of a call
Coupling(d, after, k) ==
    RAdd(I(1), RMul(IF after THEN RDiv(k, RSub(I(1), d)) ELSE k, d))

LambertCase ==
    /\ ~OutOfRange(args.a, args.d)
    /\ RLt(I(0), args.d)
    /\ RLt(I(0), args.a)
    /\ ~RIsZero(Coupling(args.d, args.after, args.k))

IsTime(r, br) == IsNum(r) /\ "sym" \in DOMAIN r /\ r.sym = "t_lambertw"
                 /\ r.of[1] = I(br)

IsPair(r) ==
    /\ IsTuple(r)
    /\ Len(r.items) = 2
    /\ IsNum(r.items[1])
    /\ IsNum(r.items[2])

\* C8: t_from_v0_p returns None or a tuple of 1 or 2 times, and v0_t_from_v_p
\* returns None or a tuple of 1 or 2 (v0, t) pairs, on every branch that
\* returns.
DocumentedShape ==
    /\ (Returned("t_from_v0_p") /\ ~IsRaise(result)) =>
          \/ IsNone(result)
          \/ /\ IsTuple(result)
             /\ Len(result.items) \in {1, 2}
             /\ \A i \in 1..Len(result.items) : IsNum(result.items[i])
    /\ (Returned("v0_t_from_v_p") /\ ~IsRaise(result)) =>
          \/ IsNone(result)
          \/ /\ IsTuple(result)
             /\ Len(result.items) \in {1, 2}
             /\ \A i \in 1..Len(result.items) : IsPair(result.items[i])

\* C9: v0_t_from_v_p with d > 0 and a > 0 returns None whenever its Lambert
\* argument is below -1/e.
NoCandidatesBelowBranchPoint ==
    (Returned("v0_t_from_v_p") /\ LambertCase /\ args.lam = "below") =>
        result = NoneV

\* a * (W0(arg) * (1 + k*d) / ln(1 - d) - 1/d) with the phase-adjusted a
\* and k of the call: the principal-branch velocity of the two-candidate
\* result (lines 346-347)
PrincipalVelocity ==
    LET a1 == IF args.after THEN RMul(args.a, RSub(I(1), args.d))
              ELSE args.a
    IN  IF args.lam = "zero" THEN Num(RNeg(RDiv(a1, args.d)))
        ELSE SymNum("v0_lambertw",
                    <<I(0), Coupling(args.d, args.after, args.k), a1,
                      args.d, args.v, args.p>>)

\* C21: in v0_t_from_v_p with d > 0 and a > 0, when the Lambert argument is
\* >= 0 the one candidate returned has the velocity that the principal-branch
\* candidate of the two-candidate result has,
\* a * (W0(arg) * (1 + k*d) / ln(1 - d) - 1/d), for every k and both phase
\* conventions.
SingleCandidateIsPrincipal ==
    (Returned("v0_t_from_v_p") /\ LambertCase /\ NonNegative(args.lam)) =>
        /\ IsTuple(result)
        /\ Len(result.items) = 1
        /\ result.items[1].items[1] = PrincipalVelocity

\* pair is the bound pair of v0_from_max_height computed on Lambert branch br
IsBoundPair(pair, br) ==
    /\ IsPair(pair)
    /\ \A i \in 1..2 :
          /\ "sym" \in DOMAIN pair.items[i]
          /\ pair.items[i].sym = "v0_height_lambertw"
          /\ pair.items[i].of[1] = I(br)
          /\ pair.items[i].of[2] = I(i)

FireballPositionPrinted ==
    (pc = "returned" /\ op = "current_position_from_time_passed"
       /\ RLe(I(0), args.t)) =>
        IsNum(result)

ReturnedMmt(f) == pc = "returned" /\ op = f /\ args.m = "mmt"

\* C14: max_height_tick_from_v0 of mmt.py ends with the parameter-range
\* error for every a < 0, d = 0 included; it returns neither a tick nor None
\* for a negative acceleration.
PeakTickRangeErrorFirst ==
    (ReturnedMmt("max_height_tick_from_v0") /\ RLt(args.a, I(0))) =>
        result = ParamError

\* C15: t_from_v0_p of mmt.py, called with valid parameters for which
\* max_height_from_v0(v0, a, d, after) is None, returns None and does not
\* raise.
MissingPeakGivesNone ==
    (ReturnedMmt("t_from_v0_p") /\ mmt_check_values(args.a, args.d)
       /\ IsNone(mmt_max_height_from_v0(args.v0, args.a, args.d, args.after,
                                        TRUE))) =>
        result = NoneV

\* the integer ticks the position is compared at: they reach past every
\* peak tick v0 / a - k of the calls
PeakTicks ==
    {I(n) : n \in -(MaxV + MaxK + 2)..(MaxV + MaxK + 2)}

\* C20: with d = 0 and a > 0, max_height_from_v0(v0, a, 0, after, k) is at
\* least p_from_t(v0, n, a, 0, after, k) at every integer tick n; with d = 0
\* and a = 0 both max_height_tick_from_v0 and max_height_from_v0 return None.
PeakIsMaximumOverTicks ==
    /\ (Returned("max_height_from_v0") /\ args.d = I(0)
          /\ RLt(I(0), args.a)) =>
           /\ IsRat(result)
           /\ \A n \in PeakTicks :
                  RLe(p_from_t(args.v0, n, args.a, args.d, args.after,
                               args.k).val, result.val)
    /\ ((Returned("max_height_from_v0")
           \/ Returned("max_height_tick_from_v0"))
          /\ args.d = I(0) /\ args.a = I(0)) =>
           result = NoneV

\* a peak tick of 1/2 is rounded up to tick 1, where the position is 1
PeakIsMaximumOverTicksWitness ==
    /\ Returned("max_height_from_v0")
    /\ args.d = I(0)
    /\ args.a = I(MaxA)
    /\ args.v0 = I(1)
    /\ args.k = I(0)
    /\ result = Num(I(1))

(***************************************************************************)
(* Calls of the acceleration solvers.                                      *)
(***************************************************************************)
ObsVals == {I(n) : n \in -MaxObs..MaxObs}
ObsTicks == {I(n) : n \in 0..(MaxT + 1)}
Acc == "acceleration"

Call_a_from_double_v_t ==
    /\ pc = "idle"
    /\ \E v1 \in ObsVals, t1 \in ObsTicks, v2 \in ObsVals, t2 \in ObsTicks,
          d \in Drags, after \in BOOLEAN :
        /\ args' = [m |-> Acc, first |-> <<v1, t1>>, second |-> <<v2, t2>>,
                    d |-> d, after |-> after]
        /\ result' = a_from_double_v_t(<<v1, t1>>, <<v2, t2>>, d, after)
    /\ op' = "a_from_double_v_t"
    /\ pc' = "returned"
    /\ UNCHANGED frame

Call_a_from_double_p_t ==
    /\ pc = "idle"
    /\ \E p1 \in ObsVals, t1 \in ObsTicks, p2 \in ObsVals, t2 \in ObsTicks,
          d \in Drags, after \in BOOLEAN, k \in Ks :
        /\ args' = [m |-> Acc, first |-> <<p1, t1>>, second |-> <<p2, t2>>,
                    d |-> d, after |-> after, k |-> k]
        /\ result' = a_from_double_p_t(<<p1, t1>>, <<p2, t2>>, d, after, k)
    /\ op' = "a_from_double_p_t"
    /\ pc' = "returned"
    /\ UNCHANGED frame

Call_a_from_v_t_p_t ==
    /\ pc = "idle"
    /\ \E v1 \in ObsVals, t1 \in ObsTicks, p2 \in ObsVals, t2 \in ObsTicks,
          d \in Drags, after \in BOOLEAN, k \in Ks :
        /\ args' = [m |-> Acc, first |-> <<v1, t1>>, second |-> <<p2, t2>>,
                    d |-> d, after |-> after, k |-> k]
        /\ result' = a_from_v_t_p_t(<<v1, t1>>, <<p2, t2>>, d, after, k)
    /\ op' = "a_from_v_t_p_t"
    /\ pc' = "returned"
    /\ UNCHANGED frame

\* two velocities sampled from one motion by v_from_t, handed to
\* a_from_double_v_t
Recover_a_from_double_v_t ==
    /\ pc = "idle"
    /\ \E v0 \in ObsVals, t1 \in Ticks, t2 \in Ticks, a \in Accs, d \in Drags,
          after \in BOOLEAN :
        LET v1 == v_from_t(v0, t1, a, d, after)
            v2 == v_from_t(v0, t2, a, d, after)
        IN  /\ IsRat(v1)
            /\ IsRat(v2)
            /\ args' = [m |-> Acc, v0 |-> v0, a |-> a,
                        first |-> <<v1.val, t1>>, second |-> <<v2.val, t2>>,
                        d |-> d, after |-> after]
            /\ result' = a_from_double_v_t(<<v1.val, t1>>, <<v2.val, t2>>, d,
                                           after)
    /\ op' = "a_from_double_v_t"
    /\ pc' = "recovered"
    /\ UNCHANGED frame

\* the ways the floats of the d = 0 feasibility tests can round; the d > 0
\* branches make no such test
Roundings(d) == IF RIsZero(d) THEN BOOLEAN ELSE {FALSE}

\* a compound solver up to its call of solve_equation: it ends there with
\* the parameter error, the d = 0 answer or None, or enters solve_equation
Begin(f, r) ==
    /\ op' = f
    /\ IF NeedsSolve(r)
       THEN /\ \E acmp \in r.f.acmp, xeq \in r.f.xeq :
                  frame' = [fn |-> "solve_equation",
                            f |-> [r.f EXCEPT !.acmp = acmp, !.xeq = xeq]]
            /\ pc' = "solve_equation"
            /\ UNCHANGED result
       ELSE /\ result' = r
            /\ pc' = "returned"
            /\ UNCHANGED frame

Call_a_from_double_v_p ==
    /\ pc = "idle"
    /\ \E v1 \in ObsVals, p1 \in ObsVals, v2 \in ObsVals, p2 \in ObsVals,
          d \in Drags, after \in BOOLEAN, k \in Ks :
      \E low \in Roundings(d) :
        /\ args' = [m |-> Acc, first |-> <<v1, p1>>, second |-> <<v2, p2>>,
                    d |-> d, after |-> after, k |-> k, low |-> low]
        /\ Begin("a_from_double_v_p",
                 a_from_double_v_p(<<v1, p1>>, <<v2, p2>>, d, after, k,
                    low))

Call_a_from_v_t_v_p ==
    /\ pc = "idle"
    /\ \E v1 \in ObsVals, t1 \in ObsTicks, v2 \in ObsVals, p2 \in ObsVals,
          d \in Drags, after \in BOOLEAN, k \in Ks :
      \E low \in Roundings(d) :
        /\ args' = [m |-> Acc, first |-> <<v1, t1>>, second |-> <<v2, p2>>,
                    d |-> d, after |-> after, k |-> k, low |-> low]
        /\ Begin("a_from_v_t_v_p",
                 a_from_v_t_v_p(<<v1, t1>>, <<v2, p2>>, d, after, k,
                    low))

Call_a_from_p_t_v_p ==
    /\ pc = "idle"
    /\ \E p1 \in ObsVals, t1 \in ObsTicks, v2 \in ObsVals, p2 \in ObsVals,
          d \in Drags, after \in BOOLEAN, k \in Ks :
      \E low \in Roundings(d) :
        /\ args' = [m |-> Acc, first |-> <<p1, t1>>, second |-> <<v2, p2>>,
                    d |-> d, after |-> after, k |-> k, low |-> low]
        /\ Begin("a_from_p_t_v_p",
                 a_from_p_t_v_p(<<p1, t1>>, <<v2, p2>>, d, after, k,
                    low))

\* solve_equation has returned ret ("list" of n elements, or a "bare" number)
Solved(ret, n) ==
    /\ pc' = "filter"
    /\ frame' = [fn |-> op, ret |-> ret, n |-> n]
    /\ UNCHANGED result

Crash(e) ==
    /\ pc' = "returned"
    /\ result' = Raise(e)
    /\ frame' = NoFrame

\* a bracket-doubling loop is entered; t0 is what its first test gives
\* ("loop", "exit", or "any" where the sign is not decided), next the
\* number of zeros known once the bracket is found
Loop(kind, t0, next) ==
    /\ pc' = "doubling"
    /\ frame' = [fn |-> "solve_equation", f |-> frame.f, loop |-> kind,
                 n |-> 0, t0 |-> t0, next |-> next]
    /\ UNCHANGED result

FindDeltaZeros(n1) ==
    /\ pc' = "delta"
    /\ frame' = [fn |-> "solve_equation", f |-> frame.f, n1 |-> n1]
    /\ UNCHANGED result

\* solve_equation, lines 72-78: b - a * c == 0
SolveCollapsed ==
    /\ pc = "solve_equation"
    /\ frame.f.sbac = 0
    /\ IF frame.f.sa <= 0 \/ frame.f.acmp = 0 THEN Solved("list", 0)
       ELSE IF frame.f.xeq THEN Solved("list", 0)
       ELSE Solved("bare", 1)
    /\ UNCHANGED <<op, args>>

\* solve_equation, lines 80-100: the zeros of phi
SolvePhi ==
    /\ pc = "solve_equation"
    /\ frame.f.sbac # 0
    /\ \E z \in phi1z(frame.f) :
        IF z.n = 0
        THEN IF -(frame.f.sa * frame.f.sb * frame.f.sc) > 0
             THEN Loop("phi_empty",
                       IF frame.f.sa > 0 /\ frame.f.acmp = 0 THEN "exit"
                       ELSE "any", 0)
             ELSE FindDeltaZeros(0)
        ELSE IF z.nan THEN FindDeltaZeros(0)
        ELSE \E s \in [1..z.n -> Signs] :
                LET all == <<-(frame.f.sa * frame.f.sb)>> \o s
                IN  IF s[z.n] * frame.f.sc > 0
                    THEN Loop("phi_top", "any", SignChanges(all) + 1)
                    ELSE FindDeltaZeros(SignChanges(all))
    /\ UNCHANGED <<op, args>>

\* temp *= 2, or phi1_zeros[-1] *= 2, or delta1_zeros[-1] *= 2
DoubleBracket ==
    /\ pc = "doubling"
    /\ frame.n < MaxDoublings
    /\ frame.n > 0 \/ frame.t0 # "exit"
    /\ frame' = [frame EXCEPT !.n = frame.n + 1]
    /\ UNCHANGED <<pc, op, args, result>>

\* the loop's test fails: the bracket holds a sign change
BracketFound ==
    /\ pc = "doubling"
    /\ frame.n > 0 \/ frame.t0 # "loop"
    /\ CASE frame.loop = "phi_empty" -> Crash("AttributeError")
         [] frame.loop = "phi_top" -> FindDeltaZeros(frame.next)
         [] frame.loop = "delta_empty" -> Solved("list", 1)
         [] frame.loop = "delta_top" ->
                IF frame.f.sb = 0 THEN Crash("ZeroDivisionError")
                ELSE Solved("list", frame.next)
    /\ UNCHANGED <<op, args>>

\* the loop's test raises: temp, an int doubled from 1 (lines 85-87 and
\* 115-117), has left the range of floats with no sign change found, and
\* phi or delta cannot convert it
BracketOverflow ==
    /\ pc = "doubling"
    /\ frame.loop \in {"phi_empty", "delta_empty"}
    /\ frame.n = MaxDoublings
    /\ frame.n > 0 \/ frame.t0 # "exit"
    /\ Crash("OverflowError")
    /\ UNCHANGED <<op, args>>

\* solve_equation, lines 102-144: the roots of delta between its stationary
\* points
SolveDelta ==
    /\ pc = "delta"
    /\ \E m \in IF frame.f.sa > 0 /\ frame.f.acmp = 0 /\ frame.n1 > 0
                THEN {frame.n1 - 1, frame.n1}
                ELSE {frame.n1} :
        IF m = 0
        THEN IF frame.f.sb = 0 THEN Crash("ZeroDivisionError")
             ELSE IF delta_at_0(frame.f) * delta_at_inf(frame.f) < 0
             THEN Loop("delta_empty",
                       IF delta_at_0(frame.f) * frame.f.s1k > 0 THEN "loop"
                       ELSE "exit", 1)
             ELSE Solved("list", 0)
        ELSE \E zs \in [1..m -> Signs], j \in 0..m :
                LET pts == Partition(frame.f, zs, j)
                IN  IF pts[Len(pts)].l * delta_at_inf(frame.f) < 0
                    THEN Loop("delta_top", "any", Brackets(pts) + 1)
                    ELSE IF frame.f.sb = 0 THEN Crash("ZeroDivisionError")
                    ELSE Solved("list", Brackets(pts))
    /\ UNCHANGED <<op, args>>

\* the caller's loop over the candidates, lines 257-264, 332-339, 379-386:
\* keep of them survive it
Filter ==
    /\ pc = "filter"
    /\ IF frame.ret = "bare" THEN result' = Raise("TypeError")
       ELSE \E keep \in 0..frame.n :
               result' = IF keep = 0 THEN NoneV
                         ELSE Tuple([i \in 1..keep |->
                                        SymNum("candidate", <<i>>)])
    /\ pc' = "returned"
    /\ frame' = NoFrame
    /\ UNCHANGED <<op, args>>

NextAccel ==
    \/ Call_a_from_double_v_t
    \/ Call_a_from_double_p_t
    \/ Call_a_from_v_t_p_t
    \/ Recover_a_from_double_v_t
    \/ Call_a_from_double_v_p
    \/ Call_a_from_v_t_v_p
    \/ Call_a_from_p_t_v_p
    \/ SolveCollapsed
    \/ SolvePhi
    \/ DoubleBracket
    \/ BracketFound
    \/ BracketOverflow
    \/ SolveDelta
    \/ Filter
    \/ Return

SpecAccel == Init /\ [][NextAccel]_vars

AccelerationSolvers ==
    {"a_from_double_v_t", "a_from_double_p_t", "a_from_double_v_p",
     "a_from_v_t_p_t", "a_from_v_t_v_p", "a_from_p_t_v_p"}

CompoundSolvers == {"a_from_double_v_p", "a_from_v_t_v_p", "a_from_p_t_v_p"}

\* C2: an acceleration solver raises the parameter error exactly when d is
\* outside [0, 1): for every such d the call ends with that error, and for
\* every d in [0, 1) it ends with a value or None, never with an exception.
RangeErrorExactly ==
    (pc = "returned" /\ op \in AccelerationSolvers) =>
        IF RLe(I(0), args.d) /\ RLt(args.d, I(1)) THEN ~IsRaise(result)
        ELSE result = ParamError

\* C10: a compound solver called with d in (0, 1) returns None or a tuple of
\* at most 2 acceleration candidates.
AtMostTwoCandidates ==
    (pc = "returned" /\ op \in CompoundSolvers
       /\ RLt(I(0), args.d) /\ RLt(args.d, I(1))) =>
        \/ IsNone(result)
        \/ IsTuple(result) /\ Len(result.items) <= 2

\* the quadratic and linear coefficients that a_from_v_t_v_p (lines 319) and
\* a_from_p_t_v_p (line 363) hand to solve_quadratic, both zero
DegenerateQuadratic ==
    LET x == args.first[1]
        t1 == args.first[2]
        v2 == args.second[1]
        p2 == args.second[2]
        k == args.k
        lin == RMul(v2, RSub(I(1), RMul(I(2), k)))
    IN  \/ /\ op = "a_from_v_t_v_p"
           /\ RIsZero(RMul(t1, RSub(RSub(RMul(I(2), k), I(1)), t1)))
           /\ RIsZero(RAdd(RSub(lin, RMul(x, RSub(I(1), RMul(I(2), k)))),
                           RMul(I(2), RSub(p2, RMul(x, t1)))))
        \/ /\ op = "a_from_p_t_v_p"
           /\ ~RIsZero(t1)
           /\ RIsZero(RAdd(RMul(k, RSub(k, I(1))),
                           RDiv(RSub(I(1), RSquare(t1)), I(4))))
           /\ RIsZero(RSub(RAdd(lin, RMul(I(2), p2)), x))

\* C11: with d = 0, a_from_v_t_v_p and a_from_p_t_v_p return None, and do
\* not raise, when both the quadratic and the linear coefficient they pass
\* to solve_quadratic are zero.
DegenerateQuadraticGivesNone ==
    (pc = "returned" /\ op \in {"a_from_v_t_v_p", "a_from_p_t_v_p"}
       /\ args.d = I(0) /\ DegenerateQuadratic) =>
        result = NoneV

\* what solve_quadratic returns to a_from_v_t_v_p (line 319) or to
\* a_from_p_t_v_p (line 363) in the call that has returned
QuadraticCandidates ==
    LET x == args.first[1]
        t1 == args.first[2]
        v2 == args.second[1]
        p2 == args.second[2]
        k == args.k
        lin == RMul(v2, RSub(I(1), RMul(I(2), k)))
    IN  IF op = "a_from_v_t_v_p"
        THEN solve_quadratic(
                 RMul(t1, RSub(RSub(RMul(I(2), k), I(1)), t1)),
                 RAdd(RSub(lin, RMul(x, RSub(I(1), RMul(I(2), k)))),
                      RMul(I(2), RSub(p2, RMul(x, t1)))),
                 RSub(RSquare(v2), RSquare(x)))
        ELSE solve_quadratic(
                 RAdd(RMul(k, RSub(k, I(1))),
                      RDiv(RSub(I(1), RSquare(t1)), I(4))),
                 RSub(RAdd(lin, RMul(I(2), p2)), x),
                 RSub(RSquare(v2), RDiv(RSquare(x), RSquare(t1))))

Feasible(x) ==
    ~Infeasible(x, args.second[1], args.second[2], args.k, args.low)

\* C16: in the d = 0 branches of a_from_v_t_v_p and a_from_p_t_v_p the loop
\* over the quadratic's candidates removes exactly the infeasible ones without
\* indexing past the end of the list, and the call returns the tuple of the
\* survivors, or None when there is none.
FeasibilityLoopKeepsSurvivors ==
    (pc = "returned" /\ op \in {"a_from_v_t_v_p", "a_from_p_t_v_p"}
       /\ args.d = I(0)
       /\ (op = "a_from_p_t_v_p" => ~RIsZero(args.first[2]))
       /\ ~IsRaise(QuadraticCandidates)) =>
        LET survivors == SelectSeq(QuadraticCandidates.items, Feasible)
        IN  result = IF survivors = << >> THEN NoneV
                     ELSE SurdTuple(survivors)

\* C17: whenever solve_equation returns, what it hands to its caller is a
\* list; in the collapsed case b - a * c = 0 that list has at most one element
\* and is never a bare number.
SolveEquationReturnsList ==
    [][(pc # "filter" /\ pc' = "filter") =>
           /\ frame'.ret = "list"
           /\ (pc = "solve_equation" /\ frame.f.sbac = 0) => frame'.n <= 1]_vars

\* C18: when phi1z gives no zero and phi(0) and the sign at infinity differ,
\* the loop that doubles the top endpoint from 1 ends with the refined zero
\* recorded among the zeros of phi: solve_equation goes on to the search for
\* the roots of delta with that one zero, and does not raise.
PhiZeroRecorded ==
    [][(pc = "doubling" /\ frame.loop = "phi_empty" /\ pc' # "doubling") =>
           /\ pc' = "delta"
           /\ frame'.n1 = 1]_vars

\* C19: a bracket-doubling loop of solve_equation ends with a sign change
\* between its endpoints or, at the ceiling of its exponent, with no-solution
\* signalled: leaving the loop, the call goes on with the bracket or ends
\* without a candidate, and the loop's own test never ends it with an
\* overflow error.
DoublingStopsAtCeiling ==
    [][(pc = "doubling" /\ pc' # "doubling") =>
           /\ frame.n <= MaxDoublings
           /\ ~(pc' = "returned" /\ result' = Raise("OverflowError"))]_vars

\* C5: a_from_double_v_t given two velocities that v_from_t produced from the
\* same v0, a, d and after at tick counts t1 # t2 returns that a.
AccelerationRecovered ==
    (pc = "recovered" /\ args.first[2] # args.second[2]) =>
        result = Num(args.a)

AccelerationRecoveredWitness ==
    /\ pc = "recovered"
    /\ args.after
    /\ args.d = Q(1, DDen)
    /\ args.a = I(MaxA)
    /\ args.first[2] = I(-1)
    /\ args.second[2] = I(MaxT)
    /\ result = Num(I(MaxA))

\* C6: a_from_double_p_t with d = 0 and t2 - t1 = 0, or t1 = 0, or t2 = 0,
\* returns None.
CoincidentTimesGiveNone ==
    (pc = "returned" /\ op = "a_from_double_p_t" /\ args.d = I(0)
       /\ (args.first[2] = args.second[2] \/ args.first[2] = I(0)
           \/ args.second[2] = I(0))) =>
        result = NoneV

CoincidentTimesGiveNoneWitness ==
    /\ pc = "returned"
    /\ op = "a_from_double_p_t"
    /\ args.d = I(0)
    /\ args.first = <<I(1), I(MaxT)>>
    /\ args.second = <<I(-1), I(MaxT)>>
    /\ result = NoneV

(***************************************************************************)
(* Round trips: a forward evaluation, then the inversion fed its result.   *)
(***************************************************************************)
Forward_v_from_t ==
    /\ pc = "idle"
    /\ \E m \in Modules, v0 \in Vels, t \in Ticks, a \in Accs, d \in Drags,
          after \in BOOLEAN :
        /\ op' = "v_from_t"
        /\ args' = [m |-> m, v0 |-> v0, t |-> t, a |-> a, d |-> d,
                    after |-> after]
        /\ result' = IF m = "mmt" THEN mmt_v_from_t(v0, t, a, d, after)
                     ELSE v_from_t(v0, t, a, d, after)
    /\ pc' = "forward"
    /\ UNCHANGED frame

Invert_v0_from_v_t ==
    /\ pc = "forward"
    /\ op = "v_from_t"
    /\ IsRat(result)
    /\ op' = "v0_from_v_t"
    /\ args' = args
    /\ result' = IF args.m = "mmt"
                 THEN mmt_v0_from_v_t(result.val, args.t, args.a, args.d,
                                      args.after)
                 ELSE v0_from_v_t(result.val, args.t, args.a, args.d,
                                  args.after)
    /\ pc' = "inverted"
    /\ UNCHANGED frame

Forward_p_from_t ==
    /\ pc = "idle"
    /\ \E v0 \in Vels, t \in Ticks, a \in Accs, d \in Drags,
          after \in BOOLEAN :
        \/ \E k \in Ks :
            /\ op' = "p_from_t"
            /\ args' = [m |-> "minecraft_motion_tools", v0 |-> v0, t |-> t,
                        a |-> a, d |-> d, after |-> after, k |-> k]
            /\ result' = p_from_t(v0, t, a, d, after, k)
        \/ \E slowed_pos \in BOOLEAN :
            /\ op' = "p_from_t"
            /\ args' = [m |-> "mmt", v0 |-> v0, t |-> t, a |-> a, d |-> d,
                        after |-> after, slowed_pos |-> slowed_pos]
            /\ result' = mmt_p_from_t(v0, t, a, d, after, slowed_pos)
    /\ pc' = "forward"
    /\ UNCHANGED frame

Invert_v0_from_p_t ==
    /\ pc = "forward"
    /\ op = "p_from_t"
    /\ IsRat(result)
    /\ op' = "v0_from_p_t"
    /\ args' = args
    /\ result' = IF args.m = "mmt"
                 THEN mmt_v0_from_p_t(result.val, args.t, args.a, args.d,
                                      args.after, args.slowed_pos)
                 ELSE v0_from_p_t(result.val, args.t, args.a, args.d,
                                  args.after, args.k)
    /\ pc' = "inverted"
    /\ UNCHANGED frame

NextRoundTrip ==
    \/ Forward_v_from_t
    \/ Invert_v0_from_v_t
    \/ Forward_p_from_t
    \/ Invert_v0_from_p_t
    \/ Return

SpecRoundTrip == Init /\ [][NextRoundTrip]_vars

\* C3: feeding v_from_t(v0, t, a, d, after) to v0_from_v_t with the same t,
\* a, d and after gives back v0, in both modules and in both the d = 0 and
\* the d > 0 branch.
VelocityRoundTrip ==
    (pc = "inverted" /\ op = "v0_from_v_t") => result = Num(args.v0)

VelocityRoundTripWitness ==
    /\ pc = "inverted"
    /\ op = "v0_from_v_t"
    /\ args.after
    /\ args.d = Q(1, DDen)
    /\ args.a = I(1)
    /\ args.t = I(MaxT)
    /\ args.v0 = I(-1)
    /\ result = Num(I(-1))
\* C4: feeding p_from_t(v0, t, ...) to v0_from_p_t with the same parameters
\* gives back v0 when t # 0, for every drag-coupling option (k, or slowed_pos
\* in mmt.py) and both phase conventions; for t = 0 v0_from_p_t returns None.
PositionRoundTrip ==
    (pc = "inverted" /\ op = "v0_from_p_t") =>
        IF args.t = I(0) THEN result = NoneV ELSE result = Num(args.v0)

PositionRoundTripWitness ==
    /\ pc = "inverted"
    /\ op = "v0_from_p_t"
    /\ args.m = "minecraft_motion_tools"
    /\ args.after
    /\ args.d = Q(1, DDen)
    /\ args.a = I(1)
    /\ args.k = I(1)
    /\ args.t = I(-1)
    /\ args.v0 = I(1)
    /\ result = Num(I(1))

(***************************************************************************)
(* The two modules side by side: one call of a function of                 *)
(* minecraft_motion_tools.py and one of its namesake of mmt.py on the same *)
(* arguments, k being 1 for slowed_pos=True and 0 for slowed_pos=False.    *)
(* result is what the first returns, frame.result what the second does.    *)
(***************************************************************************)
KOfSlowedPos(slowed_pos) == IF slowed_pos THEN I(1) ELSE I(0)

Both(f, top, mmt) ==
    /\ op' = f
    /\ result' = top
    /\ frame' = [fn |-> "mmt", result |-> mmt]
    /\ pc' = "compared"

Both_v_from_t ==
    /\ pc = "idle"
    /\ \E v0 \in Vels, t \in Ticks, a \in Accs, d \in Drags,
          after \in BOOLEAN :
        /\ args' = [m |-> "both", v0 |-> v0, t |-> t, a |-> a, d |-> d,
                    after |-> after]
        /\ Both("v_from_t", v_from_t(v0, t, a, d, after),
                mmt_v_from_t(v0, t, a, d, after))

Both_v0_from_v_t ==
    /\ pc = "idle"
    /\ \E v \in Vels, t \in Ticks, a \in Accs, d \in Drags,
          after \in BOOLEAN :
        /\ args' = [m |-> "both", v |-> v, t |-> t, a |-> a, d |-> d,
                    after |-> after]
        /\ Both("v0_from_v_t", v0_from_v_t(v, t, a, d, after),
                mmt_v0_from_v_t(v, t, a, d, after))

Both_t_from_v0_v ==
    /\ pc = "idle"
    /\ \E v0 \in Vels, v \in Vels, a \in Accs, d \in Drags,
          after \in BOOLEAN :
        /\ args' = [m |-> "both", v0 |-> v0, v |-> v, a |-> a, d |-> d,
                    after |-> after]
        /\ Both("t_from_v0_v", t_from_v0_v(v0, v, a, d, after),
                mmt_t_from_v0_v(v0, v, a, d, after))

Both_p_from_t ==
    /\ pc = "idle"
    /\ \E v0 \in Vels, t \in Ticks, a \in Accs, d \in Drags,
          after \in BOOLEAN, slowed_pos \in BOOLEAN :
        /\ args' = [m |-> "both", v0 |-> v0, t |-> t, a |-> a, d |-> d,
                    after |-> after, slowed_pos |-> slowed_pos]
        /\ Both("p_from_t",
                p_from_t(v0, t, a, d, after, KOfSlowedPos(slowed_pos)),
                mmt_p_from_t(v0, t, a, d, after, slowed_pos))

Both_max_height_tick_from_v0 ==
    /\ pc = "idle"
    /\ \E v0 \in Vels, a \in Accs, d \in Drags, after \in BOOLEAN,
          slowed_pos \in BOOLEAN :
        /\ args' = [m |-> "both", v0 |-> v0, a |-> a, d |-> d,
                    after |-> after, slowed_pos |-> slowed_pos]
        /\ Both("max_height_tick_from_v0",
                max_height_tick_from_v0(v0, a, d, after,
                                        KOfSlowedPos(slowed_pos)),
                mmt_max_height_tick_from_v0(v0, a, d, after, slowed_pos))

NextAgree ==
    \/ Both_v_from_t
    \/ Both_v0_from_v_t
    \/ Both_t_from_v0_v
    \/ Both_p_from_t
    \/ Both_max_height_tick_from_v0
    \/ Return

SpecAgree == Init /\ [][NextAgree]_vars

\* C22: for every v0, t, every a >= 0 and d in [0, 1) and both phase
\* conventions, each of v_from_t, v0_from_v_t, t_from_v0_v, p_from_t and
\* max_height_tick_from_v0 returns the same in mmt.py as in
\* minecraft_motion_tools.py, slowed_pos=True standing against k=1 and
\* slowed_pos=False against k=0.
ModulesAgree ==
    (pc = "compared" /\ ~OutOfRange(args.a, args.d)) =>
        /\ ~IsRaise(result)
        /\ frame.result = result

\* the slowed_pos=True, after=True branch of p_from_t, which the two modules
\* write differently
ModulesAgreeWitness ==
    /\ pc = "compared"
    /\ op = "p_from_t"
    /\ args.slowed_pos
    /\ args.after
    /\ args.d = Q(1, DDen)
    /\ args.a = I(MaxA)
    /\ args.t = I(MaxT)
    /\ args.v0 = I(1)
    /\ IsRat(result)
    /\ frame.result = result
====
